---- MODULE Spec2Model ----
(***************************************************************************)
(* A model of the chain engine of kme-btcrs (lib/src/types/blockchain.rs), *)
(* of the wallet's transaction assembly (wallet/src/core.rs) and of the    *)
(* node's serialisation of chain writers (node/src/main.rs).               *)
(*                                                                         *)
(* Hashes are modelled structurally: Hash::hash(x) is the tagged value     *)
(* <<tag, x>>, which is deterministic and collision free, as double        *)
(* SHA-256 over the canonical encoding is taken to be.  The reading of a   *)
(* hash as a U256 keeps only as many leading bits as the scaled target     *)
(* space has (HashAsU256).                                                 *)
(***************************************************************************)
EXTENDS Integers, Sequences, FiniteSets, TLC

(***************************************************************************)
(* Program constants (lib/src/lib.rs).                                     *)
(***************************************************************************)
INITIAL_REWARD == 50
HALVING_INTERVAL == 210
IDEAL_BLOCK_TIME == 10
DIFFICULTY_UPDATE_INTERVAL == 50
MAX_MEMPOOL_TRANSACTION_AGE == 600

(***************************************************************************)
(* Scaled widths.  The code's U256 target space (MIN_TARGET = 2^232 - 1 in *)
(* a 2^256 hash space), its u64 amounts and its 10^8 sats per coin do not  *)
(* fit the checker's integers; the model keeps their structure at a        *)
(* smaller scale.                                                          *)
(***************************************************************************)
TargetBits == 8
HashSpaceBits == 2
U64Bits == 16
SatsExp == 2
HeadroomBits == 8

MIN_TARGET == 2^TargetBits - 1
HashSpace == 2^(TargetBits + HashSpaceBits)
U64Modulus == 2^U64Bits
U256Modulus == 2^(TargetBits + HeadroomBits)
SATS_PER_COIN == 10^SatsExp

(***************************************************************************)
(* Sequence helpers.                                                       *)
(***************************************************************************)
Range(s) == {s[i] : i \in DOMAIN s}

RECURSIVE SumSeq(_)
SumSeq(s) == IF s = <<>> THEN 0 ELSE Head(s) + SumSeq(Tail(s))

Min(S) == CHOOSE x \in S : \A y \in S : x <= y

\* Vec::retain by index: the elements whose index is not in drop, in order.
RECURSIVE KeepIndices(_, _, _)
KeepIndices(s, drop, i) ==
    IF i > Len(s) THEN <<>>
    ELSE (IF i \in drop THEN <<>> ELSE <<s[i]>>) \o KeepIndices(s, drop, i + 1)

\* slice::sort_by_key is a stable sort.  keys[i] is the key of s[i]; the
\* element x with key k goes after every element whose key is at most k.
RECURSIVE InsertByKey(_, _, _, _)
InsertByKey(sorted, sortedKeys, x, k) ==
    IF sorted = <<>> THEN <<x>>
    ELSE IF k < Head(sortedKeys) THEN <<x>> \o sorted
    ELSE <<Head(sorted)>> \o InsertByKey(Tail(sorted), Tail(sortedKeys), x, k)

RECURSIVE SortedKeys(_)
SortedKeys(keys) ==
    IF keys = <<>> THEN <<>>
    ELSE LET n == Len(keys)
         IN InsertByKey(SortedKeys(SubSeq(keys, 1, n - 1)),
                        SortedKeys(SubSeq(keys, 1, n - 1)), keys[n], keys[n])

RECURSIVE SortByKey(_, _)
SortByKey(s, keys) ==
    IF s = <<>> THEN <<>>
    ELSE LET n == Len(s)
         IN InsertByKey(SortByKey(SubSeq(s, 1, n - 1), SubSeq(keys, 1, n - 1)),
                        SortedKeys(SubSeq(keys, 1, n - 1)), s[n], keys[n])

(***************************************************************************)
(* Hashing (lib/src/sha256.rs is not among the sources; Hash::hash is      *)
(* taken from the specification: a deterministic, collision-free digest of *)
(* the canonical encoding).                                                *)
(***************************************************************************)
ZeroHash == <<"zero", 0>>
TxHash(tx) == <<"tx", tx>>
OutputHash(output) == <<"out", output>>
PairHash(left, right) == <<"pair", <<left, right>>>>


(***************************************************************************)
(* u64 arithmetic.  Iterator::sum and the operators + and - panic on       *)
(* overflow when the build has overflow checks (oc) and wrap otherwise.    *)
(***************************************************************************)
SumOverflows(values) == SumSeq(values) >= U64Modulus
SumU64(values) == SumSeq(values) % U64Modulus
SubOverflows(a, b) == a < b
SubU64(a, b) == (a - b) % U64Modulus

(***************************************************************************)
(* Blockchain (lib/src/types/blockchain.rs).  A chain value bc is the      *)
(* record of the struct's four fields.                                     *)
(***************************************************************************)
EmptyUtxos == [h \in {} |-> FALSE]

NewBlockchain ==
    [utxos |-> EmptyUtxos, blocks |-> <<>>, target |-> MIN_TARGET, mempool |-> <<>>]

Outcome(bc, res) == [bc |-> bc, res |-> res]

InputHashes(transaction) ==
    [i \in DOMAIN transaction.inputs |->
        transaction.inputs[i].prev_transaction_output_hash]

OutputValues(transaction) ==
    [i \in DOMAIN transaction.outputs |-> transaction.outputs[i].value]

\* The values the utxo map holds for the inputs of a transaction.
InputValues(utxos, transaction) ==
    [i \in DOMAIN transaction.inputs |->
        utxos[transaction.inputs[i].prev_transaction_output_hash].output.value]

\* A marking that leaves every mark as it was.
SetMarksLost(utxos, hs, m) == utxos

\* entry(hash).and_modify(|(_, marked)| *marked = m) for every hash of hs:
\* a hash that is no key of the map is left out.
SetMarks(utxos, hs, m) ==
    [h \in DOMAIN utxos |->
        IF h \in hs THEN [utxos[h] EXCEPT !.marked = m] ELSE utxos[h]]

\* The mempool positions whose transaction has an output hashing to h.
Referencing(mempool, h) ==
    {idx \in DOMAIN mempool :
        \E o \in DOMAIN mempool[idx].tx.outputs :
            OutputHash(mempool[idx].tx.outputs[o]) = h}

\* The key sort_by_key computes for a mempool entry; it needs every input
\* of the entry to be a key of utxos.
FeeKeyPanics(utxos, transaction, oc) ==
    \/ \E h \in Range(InputHashes(transaction)) : h \notin DOMAIN utxos
    \/ /\ oc
       /\ \/ SumOverflows(InputValues(utxos, transaction))
          \/ SumOverflows(OutputValues(transaction))
          \/ SubOverflows(SumU64(InputValues(utxos, transaction)),
                          SumU64(OutputValues(transaction)))

FeeKey(utxos, transaction) ==
    SubU64(SumU64(InputValues(utxos, transaction)),
           SumU64(OutputValues(transaction)))

\* Blockchain::add_to_mempool(transaction), called at time t.
add_to_mempool(bc, transaction, t, oc) ==
    LET ins == InputHashes(transaction)
        unknown == \E i \in DOMAIN ins : ins[i] \notin DOMAIN bc.utxos
        repeated == \E i, j \in DOMAIN ins : i < j /\ ins[i] = ins[j]
    IN
    IF unknown \/ repeated THEN Outcome(bc, "InvalidTransaction")
    ELSE
    LET markedIns == {h \in Range(ins) : bc.utxos[h].marked}
        \* find() gives the first mempool entry with a matching output
        found == {h \in markedIns : Referencing(bc.mempool, h) # {}}
        to_remove == {Min(Referencing(bc.mempool, h)) : h \in found}
        utxos1 == SetMarks(bc.utxos, markedIns \ found, FALSE)
        removedInputs ==
            UNION {Range(InputHashes(bc.mempool[idx].tx)) : idx \in to_remove}
        utxos2 == SetMarks(utxos1, removedInputs, FALSE)
        mempool2 == KeepIndices(bc.mempool, to_remove, 1)
        bc2 == [bc EXCEPT !.utxos = utxos2, !.mempool = mempool2]
        inVals == InputValues(utxos2, transaction)
        outVals == OutputValues(transaction)
    IN
    IF oc /\ (SumOverflows(inVals) \/ SumOverflows(outVals))
    THEN Outcome(bc2, "panic")
    ELSE IF SumU64(inVals) < SumU64(outVals)
    THEN Outcome(bc2, "InvalidTransaction")
    ELSE
    LET utxos3 == SetMarks(utxos2, Range(ins), TRUE)
        pushed == Append(mempool2, [tx |-> transaction, admitted_at |-> t])
        \* the sort compares, and so computes keys, only when there are
        \* two entries or more
        sortPanics == /\ Len(pushed) > 1
                      /\ \E i \in DOMAIN pushed :
                            FeeKeyPanics(utxos3, pushed[i].tx, oc)
        keys == [i \in DOMAIN pushed |-> FeeKey(utxos3, pushed[i].tx)]
    IN
    IF sortPanics
    THEN Outcome([bc2 EXCEPT !.utxos = utxos3, !.mempool = pushed], "panic")
    ELSE Outcome([bc2 EXCEPT !.utxos = utxos3,
                             !.mempool = IF Len(pushed) > 1
                                         THEN SortByKey(pushed, keys)
                                         ELSE pushed], "Ok")


\* Blockchain::cleanup_mempool(), called at time t.  retain() runs on the
\* copy to_vec() makes, so the mempool itself keeps every entry; the inputs
\* of the entries that are too old are unmarked.
cleanup_mempool(bc, t) ==
    LET old == {idx \in DOMAIN bc.mempool :
                   t - bc.mempool[idx].admitted_at > MAX_MEMPOOL_TRANSACTION_AGE}
        utxo_hashes_to_unmark ==
            UNION {Range(InputHashes(bc.mempool[idx].tx)) : idx \in old}
    IN [bc EXCEPT !.utxos = SetMarks(bc.utxos, utxo_hashes_to_unmark, FALSE)]

\* The transactions of the chain, block after block.
RECURSIVE ChainTransactions(_)
ChainTransactions(blocks) ==
    IF blocks = <<>> THEN <<>>
    ELSE ChainTransactions(SubSeq(blocks, 1, Len(blocks) - 1))
         \o blocks[Len(blocks)].transactions

\* A pass that leaves alone a transaction the map already holds a key for.
ApplyTransactionOnce(utxos, transaction) ==
    LET spent == Range(InputHashes(transaction))
        kept == DOMAIN utxos \ spent
        n == Len(transaction.outputs)
        key == TxHash(transaction)
    IN IF key \in DOMAIN utxos \/ n = 0 THEN utxos
       ELSE [h \in kept \cup {key} |->
                IF h = key
                THEN [output |-> transaction.outputs[n], marked |-> FALSE]
                ELSE utxos[h]]

\* One pass of the inner loops of rebuild_utxos: the keys the inputs name
\* are removed, then every output is inserted under the hash of the
\* transaction, the last output overwriting the ones before it.
ApplyTransaction(utxos, transaction) ==
    LET spent == Range(InputHashes(transaction))
        kept == DOMAIN utxos \ spent
        n == Len(transaction.outputs)
        key == TxHash(transaction)
    IN IF n = 0 THEN [h \in kept |-> utxos[h]]
       ELSE [h \in kept \cup {key} |->
                IF h = key
                THEN [output |-> transaction.outputs[n], marked |-> FALSE]
                ELSE utxos[h]]

RECURSIVE ApplyTransactions(_, _)
ApplyTransactions(utxos, txs) ==
    IF txs = <<>> THEN utxos
    ELSE LET next == ApplyTransaction(utxos, Head(txs))
         IN IF DOMAIN next = {} THEN ApplyTransactions(EmptyUtxos, Tail(txs))
            ELSE ApplyTransactions(next, Tail(txs))

\* Blockchain::rebuild_utxos(): it starts from the map as it is.
rebuild_utxos(bc) ==
    [bc EXCEPT !.utxos = ApplyTransactions(bc.utxos, ChainTransactions(bc.blocks))]

\* Blockchain::block_height()
block_height(bc) == Len(bc.blocks)

(***************************************************************************)
(* MerkleRoot::calculate (lib/src/util.rs).  It indexes layer[0], which    *)
(* panics for an empty transaction list.                                   *)
(***************************************************************************)
MerkleLayer(layer) ==
    [k \in 1..((Len(layer) + 1) \div 2) |->
        PairHash(layer[2 * k - 1],
                 IF 2 * k <= Len(layer) THEN layer[2 * k] ELSE layer[2 * k - 1])]

RECURSIVE MerkleFold(_)
MerkleFold(layer) ==
    IF Len(layer) > 1 THEN MerkleFold(MerkleLayer(layer)) ELSE layer[1]

MerkleRootPanics(transactions) == transactions = <<>>

MerkleRootCalculate(transactions) ==
    MerkleFold([i \in DOMAIN transactions |-> TxHash(transactions[i])])


(***************************************************************************)
(* The parts of the chain data model whose code is not among the sources   *)
(* (sha256.rs, crypto.rs, types/block.rs), taken from the specification.   *)
(***************************************************************************)
\* A hash read as a number of the scaled hash space: a fixed mixing of the
\* hashed fields, standing for the leading bits of the digest.
RECURSIVE HashAsU256(_)
HashAsU256(h) ==
    CASE h[1] = "zero" -> 0
      [] h[1] = "out" -> (h[2].value * 7 + h[2].unique_id * 13 + 5) % HashSpace
      [] h[1] = "tx" ->
            (SumSeq(OutputValues(h[2])) * 3
             + SumSeq([i \in DOMAIN h[2].outputs |-> h[2].outputs[i].unique_id]) * 19
             + SumSeq([i \in DOMAIN h[2].inputs |->
                          HashAsU256(h[2].inputs[i].prev_transaction_output_hash)]) * 11
             + 23) % HashSpace
      [] h[1] = "pair" ->
            (HashAsU256(h[2][1]) * 37 + HashAsU256(h[2][2]) * 41 + 1) % HashSpace
      [] h[1] = "hdr" -> h[3]

\* The hash of a header: its preimage together with the number the digest
\* reads as, which mixes the header's fields and the numbers of the two
\* hashes it holds.
HeaderHash(header) ==
    <<"hdr", header,
      (header.nonce * 389 + header.timestamp * 71 + header.target * 29
       + HashAsU256(header.prev_block_hash) * 31
       + HashAsU256(header.merkle_root) * 17 + 3) % HashSpace>>

\* Hash::matches_target
matches_target(h, tgt) == HashAsU256(h) <= tgt

\* Block::hash is the hash of the header
BlockHash(block) == HeaderHash(block.header)

\* Signature::sign_output and its verification under a public key; a
\* private key is named by its public key.
sign_output(h, private) == [msg |-> h, key |-> private]
SignatureVerifies(signature, h, pubkey) ==
    signature.msg = h /\ signature.key = pubkey

\* reward(height) = (INITIAL_REWARD * 10^8) >> (height / HALVING_INTERVAL);
\* a shift by the width or more panics under overflow checks and is taken
\* modulo the width otherwise.
ShiftOverflows(height) == height \div HALVING_INTERVAL >= U64Bits
Reward(height) ==
    (INITIAL_REWARD * SATS_PER_COIN)
        \div 2^((height \div HALVING_INTERVAL) % U64Bits)

\* Blockchain::calculate_block_reward
calculate_block_reward(bc) == Reward(block_height(bc))

IsCoinbase(transaction) == transaction.inputs = <<>>

\* Block::verify_transactions(height, utxos)
verify_transactions(block, height, utxos) ==
    LET txs == block.transactions
        spends == {i \in DOMAIN txs : i > 1}
        allInputs == [i \in spends |-> Range(InputHashes(txs[i]))]
        resolved == \A i \in spends : allInputs[i] \subseteq DOMAIN utxos
        signed == \A i \in spends : \A k \in DOMAIN txs[i].inputs :
                    LET input == txs[i].inputs[k]
                    IN SignatureVerifies(input.signature,
                           input.prev_transaction_output_hash,
                           utxos[input.prev_transaction_output_hash].output.pubkey)
        unique == /\ \A i \in spends : \A k, l \in DOMAIN txs[i].inputs :
                        k # l => InputHashes(txs[i])[k] # InputHashes(txs[i])[l]
                  /\ \A i, j \in spends : i # j => allInputs[i] \cap allInputs[j] = {}
        fee(i) == SumSeq(InputValues(utxos, txs[i])) - SumSeq(OutputValues(txs[i]))
        fees == SumSeq([k \in 1..(Len(txs) - 1) |-> fee(k + 1)])
    IN
    IF txs = <<>> \/ ~IsCoinbase(txs[1]) THEN "InvalidTransaction"
    ELSE IF \E i \in spends : IsCoinbase(txs[i]) THEN "InvalidTransaction"
    ELSE IF ~resolved THEN "InvalidTransaction"
    ELSE IF ~signed THEN "InvalidSignature"
    ELSE IF ~unique THEN "InvalidTransaction"
    ELSE IF \E i \in spends : fee(i) < 0 THEN "InvalidTransaction"
    ELSE IF SumSeq(OutputValues(txs[1])) # Reward(height) + fees
         THEN "InvalidTransaction"
    ELSE "Ok"

(***************************************************************************)
(* Blockchain::try_adjust_target and Blockchain::add_block.                *)
(***************************************************************************)
\* The seconds try_adjust_target measures on a chain whose height is a
\* positive multiple of DIFFICULTY_UPDATE_INTERVAL.
WindowSeconds(bc) ==
    LET n == Len(bc.blocks)
        start_time == bc.blocks[n - DIFFICULTY_UPDATE_INTERVAL + 1].header.timestamp
        end_time == bc.blocks[n].header.timestamp
    IN end_time - start_time

\* The decimal product, cut at the decimal point.
NewTargetDecimal(bc) ==
    (bc.target * WindowSeconds(bc))
        \div (IDEAL_BLOCK_TIME * DIFFICULTY_UPDATE_INTERVAL)

\* U256::from_str_radix fails on a number of more than 256 bits and the
\* expect() on its result panics.
RetargetPanics(bc) ==
    LET n == Len(bc.blocks) IN
    /\ n # 0
    /\ n % DIFFICULTY_UPDATE_INTERVAL = 0
    /\ NewTargetDecimal(bc) >= U256Modulus

try_adjust_target(bc) ==
    LET n == Len(bc.blocks) IN
    IF n = 0 THEN bc
    ELSE IF n % DIFFICULTY_UPDATE_INTERVAL # 0 THEN bc
    ELSE IF RetargetPanics(bc) THEN bc
    ELSE
    LET new_target == NewTargetDecimal(bc)
        clamped == IF new_target < bc.target \div 4 THEN bc.target \div 4
                   ELSE IF new_target > bc.target * 4 THEN bc.target * 4
                   ELSE new_target
    IN [bc EXCEPT !.target = IF clamped < MIN_TARGET THEN clamped ELSE MIN_TARGET]

\* The checks of a block that is not the first with the timestamp compared
\* by < where the code has <=: a block timestamped as the tip passes.
CheckLaterBlockTies(bc, block) ==
    LET last_block == bc.blocks[Len(bc.blocks)] IN
    IF ~matches_target(HeaderHash(block.header), block.header.target)
    THEN "InvalidBlock"
    ELSE IF MerkleRootPanics(block.transactions) THEN "panic"
    ELSE IF MerkleRootCalculate(block.transactions) # block.header.merkle_root
    THEN "InvalidMerkleRoot"
    ELSE IF block.header.timestamp < last_block.header.timestamp
    THEN "InvalidBlock"
    ELSE IF verify_transactions(block, block_height(bc), bc.utxos) # "Ok"
    THEN "panic"
    ELSE "Ok"

\* The checks add_block makes on a block that is not the first, in order.
CheckLaterBlock(bc, block) ==
    LET last_block == bc.blocks[Len(bc.blocks)] IN
    \* a wrong prev_block_hash is only printed
    IF ~matches_target(HeaderHash(block.header), block.header.target)
    THEN "InvalidBlock"
    ELSE IF MerkleRootPanics(block.transactions) THEN "panic"
    ELSE IF MerkleRootCalculate(block.transactions) # block.header.merkle_root
    THEN "InvalidMerkleRoot"
    ELSE IF block.header.timestamp <= last_block.header.timestamp
    THEN "InvalidBlock"
    ELSE IF verify_transactions(block, block_height(bc), bc.utxos) # "Ok"
    THEN "panic"   \* unwrap()
    ELSE "Ok"

CheckBlock(bc, block) ==
    IF bc.blocks = <<>>
    THEN IF block.header.prev_block_hash # ZeroHash THEN "InvalidBlock" ELSE "Ok"
    ELSE CheckLaterBlock(bc, block)

\* The tail of add_block: mempool.retain, blocks.push, try_adjust_target.
PushBlock(bc, block) ==
    LET block_transactions == {TxHash(tx) : tx \in Range(block.transactions)}
        keep == {idx \in DOMAIN bc.mempool :
                    TxHash(bc.mempool[idx].tx) \notin block_transactions}
    IN [bc EXCEPT !.mempool = KeepIndices(bc.mempool, DOMAIN bc.mempool \ keep, 1),
                  !.blocks = Append(bc.blocks, block)]

AppendBlock(bc, block) == try_adjust_target(PushBlock(bc, block))

add_block(bc, block) ==
    LET res == CheckBlock(bc, block)
    IN IF res = "Ok"
       THEN Outcome(AppendBlock(bc, block),
                    IF RetargetPanics(PushBlock(bc, block)) THEN "panic" ELSE "Ok")
       ELSE Outcome(bc, res)


(***************************************************************************)
(* State.  utxos, blocks, target and mempool are the fields of the node's  *)
(* Blockchain; now is the wall clock Utc::now() reads; last records the    *)
(* latest call on the chain, its argument and what it returned.            *)
(* store, fee_config and created belong to the wallet: the UTXO lists it   *)
(* holds per owned key, its fee policy and what create_transaction gave    *)
(* last.  lock, pc, request and response belong to the node's connection   *)
(* tasks: the writer of the BLOCKCHAIN lock and each task's position,      *)
(* pending transaction and answer.  stream_lock, fetch_pc, fetch_key,      *)
(* to_node, from_node and fetched belong to the wallet's node stream: the  *)
(* holder of its Mutex, each fetch_utxos call's position and key, the      *)
(* messages in flight each way, and for each slot the request whose answer *)
(* it holds.  sent, send_rest, wire, read_pc, read_len, read_buf and       *)
(* received belong to one framed stream: the messages handed to send, the  *)
(* payload send still has to write, the bytes in flight, the reader's      *)
(* position, the length it read, the bytes read_exact gathered so far and  *)
(* the messages receive returned.                                          *)
(***************************************************************************)
VARIABLES utxos, blocks, target, mempool, now, last,
          store, fee_config, created,
          lock, pc, request, response,
          stream_lock, fetch_pc, fetch_key, to_node, from_node, fetched,
          sent, send_rest, wire, read_pc, read_len, read_buf, received

chainVars == <<utxos, blocks, target, mempool>>
walletVars == <<store, fee_config, created>>
nodeVars == <<lock, pc, request, response>>
fetchVars == <<stream_lock, fetch_pc, fetch_key, to_node, from_node, fetched>>
frameVars == <<sent, send_rest, wire, read_pc, read_len, read_buf, received>>
vars == <<utxos, blocks, target, mempool, now, last,
          store, fee_config, created, lock, pc, request, response,
          stream_lock, fetch_pc, fetch_key, to_node, from_node, fetched,
          sent, send_rest, wire, read_pc, read_len, read_buf, received>>

Chain == [utxos |-> utxos, blocks |-> blocks, target |-> target, mempool |-> mempool]

SetChain(bc) ==
    /\ utxos' = bc.utxos
    /\ blocks' = bc.blocks
    /\ target' = bc.target
    /\ mempool' = bc.mempool

SetChainInit ==
    /\ utxos = NewBlockchain.utxos
    /\ blocks = NewBlockchain.blocks
    /\ target = NewBlockchain.target
    /\ mempool = NewBlockchain.mempool

NoCall == [op |-> "new", res |-> "Ok", arg |-> <<>>]

(***************************************************************************)
(* Bounds of the exploration and the inputs drawn within them.             *)
(***************************************************************************)
MaxBlocks == 2
MaxMempool == 2
MaxTicks == 2
TickSeconds == 600
MaxNonce == 64
GenesisTime == 1000

Output(value, unique_id, pubkey) ==
    [value |-> value, unique_id |-> unique_id, pubkey |-> pubkey]

Input(h, private) ==
    [prev_transaction_output_hash |-> h, signature |-> sign_output(h, private)]

Transaction(inputs, outputs) == [inputs |-> inputs, outputs |-> outputs]

\* Transactions a client may submit against the utxo set us: for a key h,
\* two spends of h with different fees, a spend that names the output by
\* the output's own hash, one that names h twice, one that pays out more
\* than h holds and one whose output values sum past the u64 range.
SpendsOf(us, h) ==
    LET o == us[h].output IN
    {Transaction(<<Input(h, o.pubkey)>>, <<Output(o.value - fee, 10 + fee, "bob")>>) :
        fee \in {1, 2}}

BadSpendsOf(us, h) ==
    LET o == us[h].output IN
    { Transaction(<<Input(OutputHash(o), o.pubkey)>>, <<Output(o.value, 13, "bob")>>),
      Transaction(<<Input(h, o.pubkey), Input(h, o.pubkey)>>,
                  <<Output(o.value, 14, "bob")>>),
      Transaction(<<Input(h, o.pubkey)>>, <<Output(o.value + 1, 15, "bob")>>),
      Transaction(<<Input(h, o.pubkey)>>,
                  <<Output(U64Modulus - 1, 16, "bob"), Output(2, 17, "bob")>>) }

Submissions(us) ==
    UNION {SpendsOf(us, h) \cup BadSpendsOf(us, h) : h \in DOMAIN us}

\* The coinbase a miner builds for the block at a height, collecting fees;
\* split pays part of it to a second output.
Coinbase(height, fees, split) ==
    Transaction(<<>>,
        IF split
        THEN <<Output(Reward(height) + fees - 7, 100 + height, "alice"),
               Output(7, 200 + height, "bob")>>
        ELSE <<Output(Reward(height) + fees, 100 + height, "alice")>>)

\* BlockHeader::mine: the least nonce from n on whose hash matches the
\* header's own target, when there is one up to MaxNonce.
RECURSIVE MineFrom(_, _)
MineFrom(header, n) ==
    IF n > MaxNonce THEN header
    ELSE IF matches_target(HeaderHash([header EXCEPT !.nonce = n]), header.target)
    THEN [header EXCEPT !.nonce = n]
    ELSE MineFrom(header, n + 1)

Mined(header) == MineFrom(header, 0)

\* A header that was not mined: the least nonce whose hash misses the target.
RECURSIVE MissFrom(_, _)
MissFrom(header, n) ==
    IF n > MaxNonce THEN header
    ELSE IF ~matches_target(HeaderHash([header EXCEPT !.nonce = n]), header.target)
    THEN [header EXCEPT !.nonce = n]
    ELSE MissFrom(header, n + 1)

Unmined(header) == MissFrom(header, 0)

TipHash(bc) ==
    IF bc.blocks = <<>> THEN ZeroHash ELSE BlockHash(bc.blocks[Len(bc.blocks)])

TipTime(bc) ==
    IF bc.blocks = <<>> THEN GenesisTime - IDEAL_BLOCK_TIME
    ELSE bc.blocks[Len(bc.blocks)].header.timestamp

\* The header a node's template carries for a transaction list.
TemplateHeader(bc, transactions, timestamp) ==
    [timestamp |-> timestamp,
     nonce |-> 0,
     prev_block_hash |-> TipHash(bc),
     merkle_root |-> IF transactions = <<>> THEN ZeroHash
                     ELSE MerkleRootCalculate(transactions),
     target |-> bc.target]

Defects ==
    {"none", "prev", "easy", "nopow", "merkle", "stale", "older", "empty",
     "overpaid"}

\* A block submitted to the chain bc: the template over the coinbase and
\* the spends, mined, or one that departs from it in one way.
MakeBlock(bc, spends, fees, split, defect) ==
    LET height == block_height(bc)
        transactions ==
            CASE defect = "empty" -> <<>>
              [] defect = "overpaid" -> <<Coinbase(height, fees + 1, split)>> \o spends
              [] OTHER -> <<Coinbase(height, fees, split)>> \o spends
        h == TemplateHeader(bc, transactions, TipTime(bc) + IDEAL_BLOCK_TIME)
        header ==
            CASE defect = "prev" ->
                    [h EXCEPT !.prev_block_hash =
                        IF bc.blocks = <<>> THEN TxHash(Coinbase(0, 0, FALSE))
                        ELSE ZeroHash]
              [] defect = "easy" -> [h EXCEPT !.target = 2 * MIN_TARGET + 1]
              [] defect = "merkle" -> [h EXCEPT !.merkle_root = ZeroHash]
              [] defect = "stale" -> [h EXCEPT !.timestamp = TipTime(bc)]
              [] defect = "older" -> [h EXCEPT !.timestamp = TipTime(bc) - 1]
              [] OTHER -> h
    IN [header |-> IF defect = "nopow" THEN Unmined(header) ELSE Mined(header),
        transactions |-> transactions]

\* The blocks offered to add_block in a state: the sound block over the
\* bare coinbase, over a split coinbase and over each spend of the utxo
\* set, and the defective ones (those a first block can show, on any chain;
\* the others on a chain that has a tip).
FirstDefects == {"prev", "nopow", "merkle"}

BlockInputs(bc) ==
    {MakeBlock(bc, <<>>, 0, split, "none") : split \in BOOLEAN}
    \cup {MakeBlock(bc, <<>>, 0, FALSE, defect) :
            defect \in IF bc.blocks = <<>> THEN FirstDefects ELSE Defects \ {"none"}}
    \cup {MakeBlock(bc, <<tx>>,
                    SumSeq(InputValues(bc.utxos, tx)) - SumSeq(OutputValues(tx)),
                    FALSE, "none") :
            tx \in UNION {SpendsOf(bc.utxos, h) : h \in DOMAIN bc.utxos}}

\* What the environment offers within the bounds.
OfferedBlocks == IF Len(blocks) < MaxBlocks THEN BlockInputs(Chain) ELSE {}
OfferedTransactions == IF Len(mempool) < MaxMempool THEN Submissions(utxos) ELSE {}

(***************************************************************************)
(* The wallet (wallet/src/core.rs).  A core value is the record of the     *)
(* owned keys (Vec<LoadedKey>, each named by its public key), the UTXO     *)
(* store (a SkipMap from public key to a list of (output, marked)) and the *)
(* fee policy.                                                             *)
(***************************************************************************)
\* SkipMap iterates in the order of its keys.
KeyRank == [k \in {"alice", "bob", "carol"} |->
               CASE k = "alice" -> 1 [] k = "bob" -> 2 [] k = "carol" -> 3]

RECURSIVE KeysInOrder(_)
KeysInOrder(ks) ==
    IF ks = {} THEN <<>>
    ELSE LET k == CHOOSE x \in ks : \A y \in ks : KeyRank[x] <= KeyRank[y]
         IN <<k>> \o KeysInOrder(ks \ {k})

\* Core::calculate_fee
calculate_fee(core, amount) ==
    IF core.fee_config.fee_type = "Fixed" THEN core.fee_config.value
    ELSE (amount * core.fee_config.value) \div 100

\* The (key, output) pairs the two loops of create_transaction visit and do
\* not skip: the unmarked entries, key after key, each list in order.
RECURSIVE UnmarkedOf(_, _)
UnmarkedOf(key, list) ==
    IF list = <<>> THEN <<>>
    ELSE (IF Head(list).marked THEN <<>>
          ELSE <<[key |-> key, output |-> Head(list).output]>>)
         \o UnmarkedOf(key, Tail(list))

RECURSIVE UnmarkedWalk(_, _)
UnmarkedWalk(st, ks) ==
    IF ks = <<>> THEN <<>>
    ELSE UnmarkedOf(Head(ks), st[Head(ks)]) \o UnmarkedWalk(st, Tail(ks))

\* The walk pushes an input while input_sum < total_amount.
RECURSIVE Selected(_, _, _)
Selected(walk, input_sum, total_amount) ==
    IF walk = <<>> \/ input_sum >= total_amount THEN <<>>
    ELSE <<Head(walk)>>
         \o Selected(Tail(walk), input_sum + Head(walk).output.value, total_amount)

\* Core::create_transaction(recipient, amount); id1 and id2 are the values
\* Uuid::new_v4() gives.  amount + fee is a plain u64 addition: past the
\* u64 range it panics in a build with overflow checks and wraps in one
\* without.
create_transaction(core, recipient, amount, id1, id2, oc) ==
    LET fee == calculate_fee(core, amount)
        total_amount == (amount + fee) % U64Modulus
        chosen == Selected(UnmarkedWalk(core.store, KeysInOrder(DOMAIN core.store)),
                           0, total_amount)
        input_sum == SumSeq([i \in DOMAIN chosen |-> chosen[i].output.value])
        inputs == [i \in DOMAIN chosen |->
                      Input(OutputHash(chosen[i].output), chosen[i].key)]
        first == Output(amount, id1, core.keys[1])
        change == Output(input_sum - total_amount, id2, core.keys[1])
    IN IF oc /\ amount + fee >= U64Modulus
       THEN [res |-> "panic", tx |-> <<>>]
       ELSE IF input_sum < total_amount
       THEN [res |-> "Insufficient funds", tx |-> <<>>]
       ELSE [res |-> "Ok",
             tx |-> <<Transaction(inputs,
                         IF input_sum > total_amount THEN <<first, change>>
                         ELSE <<first>>)>>]

(***************************************************************************)
(* The chain engine: one action per public operation of Blockchain.        *)
(***************************************************************************)
\* The wallet and the connection tasks at rest.
NoCreated == [res |-> "none", tx |-> <<>>, recipient |-> "alice", amount |-> 0]

WalletIdle ==
    /\ store = [k \in {} |-> <<>>]
    /\ fee_config = [fee_type |-> "Fixed", value |-> 0]
    /\ created = NoCreated

Tasks == {1, 2}

NodeIdle ==
    /\ lock = 0
    /\ pc = [p \in Tasks |-> "idle"]
    /\ request = [p \in Tasks |-> <<>>]
    /\ response = [p \in Tasks |-> "none"]

\* The wallet's node stream with no fetch_utxos call under way.
Fetchers == {1, 2}

FetchIdle ==
    /\ stream_lock = 0
    /\ fetch_pc = [c \in Fetchers |-> "idle"]
    /\ fetch_key = [c \in Fetchers |-> 0]
    /\ to_node = <<>>
    /\ from_node = <<>>
    /\ fetched = [k \in {} |-> <<>>]

\* A stream nothing was written to.
FramesIdle ==
    /\ sent = <<>>
    /\ send_rest = <<>>
    /\ wire = <<>>
    /\ read_pc = "len"
    /\ read_len = 0
    /\ read_buf = <<>>
    /\ received = <<>>

Init ==
    /\ SetChainInit
    /\ now = 0
    /\ last = NoCall
    /\ WalletIdle
    /\ NodeIdle
    /\ FetchIdle
    /\ FramesIdle


Call(op, res, arg) == [op |-> op, res |-> res, arg |-> arg]

AddToMempool(transaction) ==
    /\ \E oc \in BOOLEAN :
          LET out == add_to_mempool(Chain, transaction, now, oc)
          IN /\ SetChain(out.bc)
             /\ last' = Call("add_to_mempool", out.res, <<transaction>>)
    /\ UNCHANGED <<now, walletVars, nodeVars, fetchVars, frameVars>>

CleanupMempool ==
    /\ SetChain(cleanup_mempool(Chain, now))
    /\ last' = Call("cleanup_mempool", "Ok", <<>>)
    /\ UNCHANGED <<now, walletVars, nodeVars, fetchVars, frameVars>>

RebuildUtxos ==
    /\ SetChain(rebuild_utxos(Chain))
    /\ last' = Call("rebuild_utxos", "Ok", <<>>)
    /\ UNCHANGED <<now, walletVars, nodeVars, fetchVars, frameVars>>

AddBlock(block) ==
    /\ LET out == add_block(Chain, block)
       IN /\ SetChain(out.bc)
          /\ last' = Call("add_block", out.res, <<block.header.timestamp>>)
    /\ UNCHANGED <<now, walletVars, nodeVars, fetchVars, frameVars>>

\* Time passes.  The clock is read only against the admission times of the
\* mempool, so it is let run only while the mempool holds an entry.
Tick ==
    /\ mempool # <<>>
    /\ now < MaxTicks * TickSeconds
    /\ now' = now + TickSeconds
    /\ UNCHANGED <<chainVars, last, walletVars, nodeVars, fetchVars, frameVars>>

Next ==
    \/ \E transaction \in OfferedTransactions : AddToMempool(transaction)
    \/ CleanupMempool
    \/ RebuildUtxos
    \/ \E block \in OfferedBlocks : AddBlock(block)
    \/ Tick

Spec == Init /\ [][Next]_vars


(***************************************************************************)
(* Claims about the chain engine, checked under Spec.                      *)
(***************************************************************************)
MempoolTransactions(mp) == {mp[i].tx : i \in DOMAIN mp}

Marked(us, h) == h \in DOMAIN us /\ us[h].marked

\* C1: when add_to_mempool(T1) returned Ok and the next call,
\* add_to_mempool(T2) of another transaction spending a UTXO T1 spends,
\* returns Ok too, the mempool holds T2 and not T1, the UTXOs only T1
\* referenced are unmarked and the shared ones are marked.
C1_DoubleSpendResolved ==
    [][\A T2 \in OfferedTransactions :
        LET T1 == last.arg[1] IN
        (/\ last.op = "add_to_mempool" /\ last.res = "Ok"
         /\ AddToMempool(T2) /\ last'.res = "Ok"
         /\ T1 # T2
         /\ Range(InputHashes(T1)) \cap Range(InputHashes(T2)) # {})
        => /\ T2 \in MempoolTransactions(mempool')
           /\ T1 \notin MempoolTransactions(mempool')
           /\ \A h \in Range(InputHashes(T1)) \ Range(InputHashes(T2)) :
                 ~Marked(utxos', h)
           /\ \A h \in Range(InputHashes(T1)) \cap Range(InputHashes(T2)) :
                 Marked(utxos', h)]_vars

Linked(bs) ==
    \A i \in DOMAIN bs :
        bs[i].header.prev_block_hash =
            IF i = 1 THEN ZeroHash ELSE BlockHash(bs[i - 1])

\* C2: the first block of the chain has prev_block_hash = Hash::zero() and
\* every later block names the hash of the block before it; add_block of a
\* block whose prev_block_hash is not the tip's hash returns an error and
\* appends nothing.
C2_ChainLinkage ==
    [][/\ Linked(blocks')
       /\ \A block \in OfferedBlocks :
            (/\ AddBlock(block)
             /\ blocks # <<>>
             /\ block.header.prev_block_hash # TipHash(Chain))
            => (last'.res # "Ok" /\ blocks' = blocks)]_vars

\* C3: every block add_block accepts has header.target at most the chain's
\* target at the moment of the append.
C3_TargetEnforced ==
    [][\A block \in OfferedBlocks :
        (AddBlock(block) /\ last'.res = "Ok") => block.header.target <= target]_vars

\* C4: for every block of the chain, the first one included, the hash of
\* its header read as a U256 is at most its header's target.
C4_ProofOfWork ==
    \A i \in DOMAIN blocks :
        matches_target(BlockHash(blocks[i]), blocks[i].header.target)

\* C5: after add_block(B) returns Ok every output of every transaction of B
\* is in utxos, unmarked, and no UTXO an input of B references is in utxos.
C5_UtxoLifecycle ==
    [][\A block \in OfferedBlocks :
        (AddBlock(block) /\ last'.res = "Ok")
        => \A tx \in Range(block.transactions) :
              /\ \A o \in Range(tx.outputs) :
                    \E h \in DOMAIN utxos' :
                        utxos'[h].output = o /\ ~utxos'[h].marked
              /\ \A h \in Range(InputHashes(tx)) : h \notin DOMAIN utxos']_vars

TooOld(entry, t) == t - entry.admitted_at > MAX_MEMPOOL_TRANSACTION_AGE

\* C7: after cleanup_mempool the mempool holds no entry admitted more than
\* MAX_MEMPOOL_TRANSACTION_AGE seconds ago, every UTXO an evicted entry
\* referenced is unmarked, and the entries that are not that old, and the
\* marks of their UTXOs, are as they were.
C7_AgeEviction ==
    [][CleanupMempool =>
        LET old == {i \in DOMAIN mempool : TooOld(mempool[i], now)}
            young == DOMAIN mempool \ old
        IN /\ \A i \in DOMAIN mempool' : ~TooOld(mempool'[i], now)
           /\ \A i \in old : \A h \in Range(InputHashes(mempool[i].tx)) :
                 ~Marked(utxos', h)
           /\ mempool' = KeepIndices(mempool, old, 1)
           /\ \A i \in young : \A h \in Range(InputHashes(mempool[i].tx)) :
                 Marked(utxos', h) = Marked(utxos, h)]_vars

\* C8: add_block returns Ok or an error value for every block and every
\* chain state; it never panics.
C8_AddBlockTotal == last.op = "add_block" => last.res # "panic"

\* C14: every block of the chain, the first one included, carries the
\* Merkle root of its transactions: header.merkle_root =
\* MerkleRoot::calculate(transactions).
C14_MerkleCommitment ==
    \A i \in DOMAIN blocks :
        /\ ~MerkleRootPanics(blocks[i].transactions)
        /\ blocks[i].header.merkle_root = MerkleRootCalculate(blocks[i].transactions)

\* A block that names the tip, matches its own target, carries the root of
\* its transactions, and whose transactions verify: every rule but the
\* one on the timestamp.
ValidButForTime(bc, block) ==
    /\ bc.blocks # <<>>
    /\ block.header.prev_block_hash = TipHash(bc)
    /\ matches_target(HeaderHash(block.header), block.header.target)
    /\ ~MerkleRootPanics(block.transactions)
    /\ MerkleRootCalculate(block.transactions) = block.header.merkle_root
    /\ verify_transactions(block, block_height(bc), bc.utxos) = "Ok"

StrictlyIncreasing(bs) ==
    \A i \in DOMAIN bs :
        i > 1 => bs[i].header.timestamp > bs[i - 1].header.timestamp

\* C15: add_block on a non-empty chain of an otherwise valid block whose
\* timestamp is at or before the tip's returns InvalidBlock and leaves the
\* chain as it is, so the timestamps of the chain strictly increase.
C15_StrictTimestamps ==
    [][/\ (/\ blocks # <<>>
           /\ last' # last
           /\ last'.op = "add_block"
           /\ last'.arg[1] <= TipTime(Chain))
          => \A block \in BlockInputs(Chain) :
                (ValidButForTime(Chain, block) /\ AddBlock(block))
                => (last'.res = "InvalidBlock" /\ blocks' = blocks)
       /\ StrictlyIncreasing(blocks')]_vars

\* C15 witness: add_block has just rejected a block timestamped exactly as
\* the tip (a tie) of a chain whose timestamps increase.
C15_TieRejected ==
    /\ blocks # <<>>
    /\ last.op = "add_block"
    /\ last.res = "InvalidBlock"
    /\ last.arg = <<TipTime(Chain)>>

\* C16: when add_to_mempool(T) returns Ok the inputs of T are pairwise
\* distinct, each names a key utxos had when the call started, and after
\* the call T is in the mempool with every UTXO it names marked; when an
\* input of T names no key of utxos or occurs twice, the call returns
\* InvalidTransaction.
C16_AdmissionPostcondition ==
    [][(/\ last'.op = "add_to_mempool"
        /\ <<utxos, mempool, last>>' # <<utxos, mempool, last>>)
       => LET T == last'.arg[1]
              ins == InputHashes(T)
              repeated == \E i, j \in DOMAIN ins : i < j /\ ins[i] = ins[j]
              absent == \E i \in DOMAIN ins : ins[i] \notin DOMAIN utxos
          IN  /\ last'.res = "Ok"
                 => /\ ~repeated
                    /\ ~absent
                    /\ T \in MempoolTransactions(mempool')
                    /\ \A h \in Range(ins) : Marked(utxos', h)
              /\ (repeated \/ absent) => last'.res = "InvalidTransaction"]_vars

\* C16 witness: add_to_mempool has just admitted a transaction, which is in
\* the mempool with its inputs marked.
C16_Admitted ==
    /\ last.op = "add_to_mempool"
    /\ last.res = "Ok"
    /\ last.arg[1] \in MempoolTransactions(mempool)
    /\ \A h \in Range(InputHashes(last.arg[1])) : Marked(utxos, h)

\* C21: rebuild_utxos is idempotent: deriving the map again from the same
\* block list after a rebuild_utxos gives the map the first run left.
C21_RebuildIdempotent ==
    LET once == rebuild_utxos(Chain)
    IN rebuild_utxos(once).utxos = once.utxos

\* C21 witness: rebuild_utxos has run on a chain whose second block spends
\* the coinbase of the first.
C21_RebuiltAfterSpend ==
    /\ last.op = "rebuild_utxos"
    /\ Len(blocks) = 2
    /\ Len(blocks[2].transactions) = 2
    /\ utxos # EmptyUtxos
    /\ rebuild_utxos(Chain).utxos = utxos

\* C22: rebuild_utxos on an empty map leaves exactly one entry for each
\* output of the chain that no committed input references, under the
\* output's own hash, and no entry for a spent output.
C22_UnspentSet ==
    [][(utxos = EmptyUtxos /\ blocks' = blocks /\ last'.op = "rebuild_utxos")
       => LET txs == Range(ChainTransactions(blocks))
              outputs == UNION {Range(tx.outputs) : tx \in txs}
              spent == UNION {Range(InputHashes(tx)) : tx \in txs}
              unspent == {o \in outputs : OutputHash(o) \notin spent}
          IN /\ \A o \in unspent :
                   /\ OutputHash(o) \in DOMAIN utxos'
                   /\ utxos'[OutputHash(o)].output = o
             /\ Cardinality(DOMAIN utxos') = Cardinality(unspent)
             /\ \A h \in spent : h \notin DOMAIN utxos']_vars

\* C24: no two mempool entries have an input with the same
\* prev_transaction_output_hash.
C24_NoDoubleReservation ==
    \A i, j \in DOMAIN mempool :
        i # j => Range(InputHashes(mempool[i].tx))
                    \cap Range(InputHashes(mempool[j].tx)) = {}

\* The hashes the inputs of the mempool entries name.
Reserved(mp) == UNION {Range(InputHashes(mp[i].tx)) : i \in DOMAIN mp}

\* C25: a UTXO is marked exactly when an input of some mempool entry
\* references it.
C25_MarkConsistency ==
    \A h \in DOMAIN utxos : utxos[h].marked <=> h \in Reserved(mempool)

\* C26: an add_to_mempool that returns InvalidTransaction leaves the
\* mempool and the mark of every UTXO as they were.
C26_RejectedAdmissionNoEffect ==
    [][(/\ last'.op = "add_to_mempool"
        /\ last'.res = "InvalidTransaction"
        /\ now' = now)
       => /\ mempool' = mempool
          /\ utxos' = utxos]_vars

\* C28: every input of every mempool entry names a key of utxos.
C28_MempoolInputsResolve == Reserved(mempool) \subseteq DOMAIN utxos

\* C12: add_to_mempool of a transaction whose output values sum to more
\* than the u64 range holds returns InvalidTransaction: it is not admitted
\* on a wrapped sum and it does not panic.
C12_CheckedAmounts ==
    (/\ last.op = "add_to_mempool"
     /\ SumOverflows(OutputValues(last.arg[1])))
    => last.res = "InvalidTransaction"


(***************************************************************************)
(* The wallet's transaction assembly, checked under SpecWallet: the store  *)
(* holds, for each owned key, a list the node sent for it.                 *)
(***************************************************************************)
MaxWalletUtxos == 2
OwnedKeys == <<"alice", "carol">>
WalletValues == {60, 100}
WalletAmounts == {0, 60, 100, 150, U64Modulus - 1}
Recipients == {"alice", "bob"}
Uuids == {900, 901}
FeeConfigs == {[fee_type |-> "Fixed", value |-> 1],
               [fee_type |-> "Percent", value |-> 10]}

\* The lists of at most MaxWalletUtxos entries paying a key, by value and
\* mark; the entry at position i carries the unique id 10 * rank + i.
WalletShapes ==
    UNION {[1..n -> WalletValues \X BOOLEAN] : n \in 0..MaxWalletUtxos}

WalletList(key, shape) ==
    [i \in DOMAIN shape |->
        [output |-> Output(shape[i][1], 10 * KeyRank[key] + i, key),
         marked |-> shape[i][2]]]

Core == [keys |-> OwnedKeys, store |-> store, fee_config |-> fee_config]

InitWallet ==
    /\ SetChainInit
    /\ now = 0
    /\ last = NoCall
    /\ NodeIdle
    /\ FetchIdle
    /\ FramesIdle
    /\ \E shapes \in [Range(OwnedKeys) -> WalletShapes] :
          store = [k \in Range(OwnedKeys) |-> WalletList(k, shapes[k])]
    /\ fee_config \in FeeConfigs
    /\ created = NoCreated

CreateTransaction(recipient, amount) ==
    /\ \E id1, id2 \in Uuids, oc \in BOOLEAN :
          /\ id1 # id2
          /\ LET out == create_transaction(Core, recipient, amount, id1, id2, oc)
             IN created' = [res |-> out.res, tx |-> out.tx,
                            recipient |-> recipient, amount |-> amount]
    /\ UNCHANGED <<chainVars, now, last, store, fee_config, nodeVars, fetchVars, frameVars>>

NextWallet ==
    \E recipient \in Recipients, amount \in WalletAmounts :
        CreateTransaction(recipient, amount)

SpecWallet == InitWallet /\ [][NextWallet]_vars

\* The outputs the store holds, and the sum of the values of those a
\* transaction's inputs name.
StoreOutputs ==
    UNION {{store[k][i].output : i \in DOMAIN store[k]} : k \in DOMAIN store}

InputSum(transaction) ==
    LET named(h) == CHOOSE o \in StoreOutputs : OutputHash(o) = h
    IN SumSeq([i \in DOMAIN transaction.inputs |->
                  named(transaction.inputs[i].prev_transaction_output_hash).value])

\* The total value of the wallet's unmarked UTXOs.
Available ==
    LET walk == UnmarkedWalk(store, KeysInOrder(DOMAIN store))
    IN SumSeq([i \in DOMAIN walk |-> walk[i].output.value])

\* C19: create_transaction(recipient, amount) gives 'Insufficient funds'
\* exactly when the unmarked UTXOs of the wallet hold less than
\* amount + calculate_fee(amount), and a transaction otherwise.
C19_FundsCheck ==
    created.res # "none"
    => created.res = IF Available < created.amount
                                        + calculate_fee(Core, created.amount)
                     THEN "Insufficient funds"
                     ELSE "Ok"

\* C23: the inputs of a transaction create_transaction returns are the
\* shortest prefix of the wallet's unmarked UTXOs, in iteration order, whose
\* values reach amount + fee, and the values of the inputs exceed those of
\* the outputs by calculate_fee(amount).
C23_SelectionAndConservation ==
    created.res = "Ok" =>
        LET tx == created.tx[1]
            n == Len(tx.inputs)
            walk == UnmarkedWalk(store, KeysInOrder(DOMAIN store))
            WalkValues(k) == [i \in 1..k |-> walk[i].output.value]
            fee == calculate_fee(Core, created.amount)
            total == created.amount + fee
        IN /\ n <= Len(walk)
           /\ \A i \in 1..n :
                 tx.inputs[i].prev_transaction_output_hash
                     = OutputHash(walk[i].output)
           /\ SumSeq(WalkValues(n)) >= total
           /\ n > 0 => SumSeq(WalkValues(n - 1)) < total
           /\ SumSeq(WalkValues(n)) - SumSeq(OutputValues(tx)) = fee

\* C6: a transaction create_transaction(recipient, amount) returns has a
\* first output of value amount paying recipient; it has a second output,
\* of value input_sum - amount - fee and paying the wallet's first owned
\* key, exactly when input_sum > amount + fee, and no other output.
C6_OutputLayout ==
    created.res = "Ok" =>
        LET tx == created.tx[1]
            total == created.amount + calculate_fee(Core, created.amount)
        IN /\ tx.outputs[1].value = created.amount
           /\ tx.outputs[1].pubkey = created.recipient
           /\ Len(tx.outputs) = IF InputSum(tx) > total THEN 2 ELSE 1
           /\ Len(tx.outputs) = 2 =>
                 /\ tx.outputs[2].value = InputSum(tx) - total
                 /\ tx.outputs[2].pubkey = OwnedKeys[1]


(***************************************************************************)
(* Concurrent SubmitTransaction requests, checked under SpecSubmit.  The   *)
(* chain lives in the process-wide RwLock BLOCKCHAIN (node/src/main.rs);   *)
(* a connection task takes the write lock for its add_to_mempool call.     *)
(* The handler's code is not among the sources; its steps follow the       *)
(* specification (sections 4.9 and 5).                                     *)
(***************************************************************************)
\* The chain of a node that appended n sound blocks and rebuilt its UTXOs.
RECURSIVE SoundChain(_)
SoundChain(n) ==
    IF n = 0 THEN NewBlockchain
    ELSE LET bc == SoundChain(n - 1)
         IN add_block(bc, MakeBlock(bc, <<>>, 0, FALSE, "none")).bc

FundedChains == {rebuild_utxos(SoundChain(n)) : n \in 1..MaxBlocks}

InitSubmit ==
    /\ \E bc \in FundedChains :
          /\ utxos = bc.utxos
          /\ blocks = bc.blocks
          /\ target = bc.target
          /\ mempool = bc.mempool
    /\ now = 0
    /\ last = NoCall
    /\ WalletIdle
    /\ NodeIdle
    /\ FetchIdle
    /\ FramesIdle

\* A SubmitTransaction message arrives on the task's connection.
Receive(p, transaction) ==
    /\ pc[p] = "idle"
    /\ pc' = [pc EXCEPT ![p] = "received"]
    /\ request' = [request EXCEPT ![p] = <<transaction>>]
    /\ UNCHANGED <<chainVars, now, last, walletVars, lock, response, fetchVars, frameVars>>

\* BLOCKCHAIN.write().await
AcquireWrite(p) ==
    /\ pc[p] = "received"
    /\ lock = 0
    /\ lock' = p
    /\ pc' = [pc EXCEPT ![p] = "locked"]
    /\ UNCHANGED <<chainVars, now, last, walletVars, request, response, fetchVars, frameVars>>

\* add_to_mempool under the write guard, which is dropped after the call.
Admit(p) ==
    /\ pc[p] = "locked"
    /\ lock = p
    /\ \E oc \in BOOLEAN :
          LET out == add_to_mempool(Chain, request[p][1], now, oc)
          IN /\ SetChain(out.bc)
             /\ last' = Call("add_to_mempool", out.res, request[p])
             /\ response' = [response EXCEPT ![p] = out.res]
    /\ lock' = 0
    /\ pc' = [pc EXCEPT ![p] = "done"]
    /\ UNCHANGED <<now, walletVars, request, fetchVars, frameVars>>

NextSubmit ==
    \/ \E p \in Tasks, transaction \in Submissions(utxos) : Receive(p, transaction)
    \/ \E p \in Tasks : AcquireWrite(p)
    \/ \E p \in Tasks : Admit(p)

SpecSubmit == InitSubmit /\ [][NextSubmit]_vars

\* A transaction add_to_mempool admits when nothing is pending.
AdmittedAlone(transaction) ==
    add_to_mempool([Chain EXCEPT !.utxos = SetMarks(utxos, DOMAIN utxos, FALSE),
                                 !.mempool = <<>>],
                   transaction, now, FALSE).res = "Ok"

Conflicting(T1, T2) ==
    Range(InputHashes(T1)) \cap Range(InputHashes(T2)) # {}

\* C10: when two SubmitTransaction requests whose transactions spend a
\* common UTXO have both been processed, exactly one of them was admitted
\* and the other one was rejected with InvalidTransaction.
C10_OneWinner ==
    (/\ \A p \in Tasks : pc[p] = "done"
     /\ Conflicting(request[1][1], request[2][1])
     /\ \A p \in Tasks : AdmittedAlone(request[p][1]))
    => \E p, q \in Tasks :
          /\ p # q
          /\ response[p] = "Ok"
          /\ response[q] = "InvalidTransaction"
          /\ MempoolTransactions(mempool) = {request[p][1]}


(***************************************************************************)
(* Retargeting, checked under SpecRetarget: a miner extends the chain with *)
(* sound blocks whose timestamps are a steady number of seconds apart; the  *)
(* block that closes a retarget window may come after any gap.             *)
(***************************************************************************)
MaxRetargetBlocks == 100
Cadences == {1, 5, IDEAL_BLOCK_TIME, 20, 45, 1000, 2000, 5000}

\* The sound block a miner submits gap seconds after the tip.
MinedBlock(bc, gap) ==
    LET transactions == <<Coinbase(block_height(bc), 0, FALSE)>>
        timestamp == IF bc.blocks = <<>> THEN GenesisTime ELSE TipTime(bc) + gap
    IN [header |-> Mined(TemplateHeader(bc, transactions, timestamp)),
        transactions |-> transactions]

Steady(bs, gap) ==
    IF Len(bs) < 2 THEN TRUE
    ELSE IF (Len(bs) + 1) % DIFFICULTY_UPDATE_INTERVAL = 0 THEN TRUE
    ELSE gap = bs[Len(bs)].header.timestamp - bs[Len(bs) - 1].header.timestamp

MineAtCadence(gap) ==
    /\ Len(blocks) < MaxRetargetBlocks
    /\ Steady(blocks, gap)
    /\ LET block == MinedBlock(Chain, gap)
           out == add_block(Chain, block)
       IN /\ SetChain(out.bc)
          /\ last' = Call("add_block", out.res, <<block.header.timestamp>>)
    /\ UNCHANGED <<now, walletVars, nodeVars, fetchVars, frameVars>>

NextRetarget == \E gap \in Cadences : MineAtCadence(gap)

SpecRetarget == Init /\ [][NextRetarget]_vars

\* The blocks of the last retarget window are IDEAL_BLOCK_TIME apart.
IdealWindow(bs) ==
    \A i \in (Len(bs) - DIFFICULTY_UPDATE_INTERVAL + 2)..Len(bs) :
        bs[i].header.timestamp - bs[i - 1].header.timestamp = IDEAL_BLOCK_TIME

\* C9: when the chain reaches a height that is a positive multiple of
\* DIFFICULTY_UPDATE_INTERVAL and the blocks of the window are exactly
\* IDEAL_BLOCK_TIME apart, the retarget leaves the target unchanged (so it
\* is still MIN_TARGET after the 50th block).
C9_IdealCadenceNeutral ==
    [][(/\ Len(blocks') = Len(blocks) + 1
        /\ Len(blocks') % DIFFICULTY_UPDATE_INTERVAL = 0
        /\ IdealWindow(blocks'))
       => target' = target]_vars

\* C27: an add_block that returns an error leaves blocks, utxos, mempool
\* and target as they were; blocks grows, by exactly one block, when
\* add_block returns Ok and only then.
C27_RejectedBlockNoEffect ==
    [][(last'.op = "add_block" /\ now' = now)
       => /\ last'.res \notin {"Ok", "panic"}
             => /\ blocks' = blocks
                /\ utxos' = utxos
                /\ mempool' = mempool
                /\ target' = target
          /\ last'.res = "Ok"
             => /\ Len(blocks') = Len(blocks) + 1
                /\ SubSeq(blocks', 1, Len(blocks)) = blocks
          /\ last'.res # "Ok" => blocks' = blocks]_vars

\* C18: every retarget that fires (the height reaches a positive multiple
\* of DIFFICULTY_UPDATE_INTERVAL) with a previous target of at most
\* MIN_TARGET completes and leaves a target in
\* [prev / 4, min(prev * 4, MIN_TARGET)], whatever the seconds of the
\* window; a window of 100 times the ideal gives min(4 * prev, MIN_TARGET).
C18_DifficultyClamp ==
    [][(/\ Len(blocks') = Len(blocks) + 1
        /\ Len(blocks') % DIFFICULTY_UPDATE_INTERVAL = 0
        /\ target <= MIN_TARGET)
       => LET ceiling == IF target * 4 < MIN_TARGET THEN target * 4 ELSE MIN_TARGET
          IN /\ last'.res = "Ok"
             /\ target \div 4 <= target'
             /\ target' <= ceiling
             /\ WindowSeconds(Chain') =
                    100 * IDEAL_BLOCK_TIME * DIFFICULTY_UPDATE_INTERVAL
                => target' = ceiling]_vars


(***************************************************************************)
(* The wallet's UTXO refresh, checked under SpecFetch.  Every caller of    *)
(* fetch_utxos shares the Core's one node stream behind its Mutex; the     *)
(* node answers the requests of a stream in the order they arrive.  The    *)
(* node's handler is not among the sources; its answer to FetchUTXOs       *)
(* follows the specification (section 4.9).                                *)
(***************************************************************************)
\* The sequences that list the elements of a set once each.
Orderings(S) == {s \in [1..Cardinality(S) -> S] : Range(s) = S}

\* The lists the node may send for a key: its UTXOs paying the key, in the
\* order the map yields them, as the wallet stores them.
UtxoListsOf(us, key) ==
    LET mine == {h \in DOMAIN us : us[h].output.pubkey = key}
    IN {[i \in DOMAIN order |-> [output |-> us[order[i]].output,
                                 marked |-> us[order[i]].marked]] :
           order \in Orderings(mine)}

InitFetch ==
    /\ \E bc \in FundedChains :
          /\ utxos = bc.utxos
          /\ blocks = bc.blocks
          /\ target = bc.target
          /\ mempool = bc.mempool
    /\ now = 0
    /\ last = NoCall
    /\ WalletIdle
    /\ NodeIdle
    /\ FetchIdle
    /\ FramesIdle

\* A caller enters fetch_utxos: the loop starts at the first loaded key.
BeginFetch(c) ==
    /\ fetch_pc[c] = "idle"
    /\ fetch_pc' = [fetch_pc EXCEPT ![c] = "send"]
    /\ fetch_key' = [fetch_key EXCEPT ![c] = 1]
    /\ UNCHANGED <<chainVars, now, last, walletVars, nodeVars, stream_lock,
                   to_node, from_node, fetched, frameVars>>

\* message.send_async(&mut *self.stream.lock().await): the guard lives for
\* this statement only.
SendFetch(c) ==
    /\ fetch_pc[c] = "send"
    /\ stream_lock = 0
    /\ to_node' = Append(to_node, [key |-> OwnedKeys[fetch_key[c]], by |-> c])
    /\ fetch_pc' = [fetch_pc EXCEPT ![c] = "lock"]
    /\ UNCHANGED <<chainVars, now, last, walletVars, nodeVars, stream_lock,
                   fetch_key, from_node, fetched, frameVars>>

\* self.stream.lock().await of the receive statement
LockForReceive(c) ==
    /\ fetch_pc[c] = "lock"
    /\ stream_lock = 0
    /\ stream_lock' = c
    /\ fetch_pc' = [fetch_pc EXCEPT ![c] = "receive"]
    /\ UNCHANGED <<chainVars, now, last, walletVars, nodeVars, fetch_key,
                   to_node, from_node, fetched, frameVars>>

\* Message::receive_async returns the next message of the stream; its list
\* replaces the slot of the key the loop is at.
ReceiveFetch(c) ==
    /\ fetch_pc[c] = "receive"
    /\ stream_lock = c
    /\ from_node # <<>>
    /\ LET answer == Head(from_node)
           key == OwnedKeys[fetch_key[c]]
       IN /\ store' = [k \in DOMAIN store \cup {key} |->
                          IF k = key THEN answer.utxos ELSE store[k]]
          /\ fetched' = [k \in DOMAIN fetched \cup {key} |->
                            IF k = key
                            THEN [key |-> answer.key, by |-> answer.by, call |-> c]
                            ELSE fetched[k]]
    /\ from_node' = Tail(from_node)
    /\ stream_lock' = 0
    /\ IF fetch_key[c] < Len(OwnedKeys)
       THEN /\ fetch_key' = [fetch_key EXCEPT ![c] = fetch_key[c] + 1]
            /\ fetch_pc' = [fetch_pc EXCEPT ![c] = "send"]
       ELSE /\ fetch_pc' = [fetch_pc EXCEPT ![c] = "done"]
            /\ UNCHANGED fetch_key
    /\ UNCHANGED <<chainVars, now, last, fee_config, created, nodeVars,
                   to_node, frameVars>>

\* The node's connection loop answers the oldest request of the stream.
ServeFetch ==
    /\ to_node # <<>>
    /\ \E list \in UtxoListsOf(utxos, Head(to_node).key) :
          from_node' = Append(from_node, [key |-> Head(to_node).key,
                                          by |-> Head(to_node).by,
                                          utxos |-> list])
    /\ to_node' = Tail(to_node)
    /\ UNCHANGED <<chainVars, now, last, walletVars, nodeVars, stream_lock,
                   fetch_pc, fetch_key, fetched, frameVars>>

NextFetch ==
    \/ \E c \in Fetchers : BeginFetch(c)
    \/ \E c \in Fetchers : SendFetch(c)
    \/ \E c \in Fetchers : LockForReceive(c)
    \/ \E c \in Fetchers : ReceiveFetch(c)
    \/ ServeFetch

SpecFetch == InitFetch /\ [][NextFetch]_vars

\* C11: under every interleaving of concurrent fetch_utxos calls on one
\* Core, the slot stored for an owned key K holds the list the node sent in
\* answer to FetchUTXOs(K) issued by the call that stored it, never the
\* answer to a request for another key or of another call.
C11_SlotPerKey ==
    \A k \in DOMAIN fetched :
        /\ fetched[k].key = k
        /\ fetched[k].by = fetched[k].call
        /\ store[k] \in UtxoListsOf(utxos, k)


(***************************************************************************)
(* The reward schedule, checked under SpecReward: calculate_block_reward   *)
(* is called on chains of the heights around each halving, by a build with *)
(* overflow checks (oc) or without.                                        *)
(***************************************************************************)
MaxHalvings == 17
HeightOffsets == {0, 1, 2, 100, HALVING_INTERVAL - 2, HALVING_INTERVAL - 1}
RewardHeights ==
    {k * HALVING_INTERVAL + d : k \in 0..MaxHalvings, d \in HeightOffsets}

\* calculate_block_reward at a height: the shift panics under overflow
\* checks when the amount reaches the width, and is taken modulo the width
\* otherwise.
RewardCall(height, oc) ==
    IF oc /\ ShiftOverflows(height) THEN "panic" ELSE Reward(height)

CalculateBlockReward(height, oc) ==
    /\ last' = Call("calculate_block_reward", RewardCall(height, oc), <<height>>)
    /\ UNCHANGED <<chainVars, now, walletVars, nodeVars, fetchVars, frameVars>>

NextReward ==
    \E height \in RewardHeights, oc \in BOOLEAN : CalculateBlockReward(height, oc)

SpecReward == Init /\ [][NextReward]_vars

\* (50 * 10^8) >> (h / 210) over the integers: 0 once the shift passes the
\* bits of the initial reward.
ScheduledReward(height) ==
    (INITIAL_REWARD * SATS_PER_COIN) \div 2^(height \div HALVING_INTERVAL)

\* C13: at every height h calculate_block_reward returns
\* (50 * 10^8) >> (h / 210), a schedule that never increases and stays 0
\* from the height it first reaches 0, heights whose shift amount reaches
\* the 64-bit width included.
C13_RewardSchedule ==
    last.op = "calculate_block_reward"
    => last.res = ScheduledReward(last.arg[1])


(***************************************************************************)
(* The mempool of a node that holds several coins: transactions of         *)
(* different fees are admitted one after another, and blocks that carry    *)
(* mempool entries are appended (SpecMempool).                             *)
(***************************************************************************)
MempoolCoins == 3
MempoolFees == {1, 3, 5}

\* The spends of the key h a client submits: one per fee, and one whose
\* output values sum past the u64 range.
FeeSpendsOf(us, h) ==
    LET o == us[h].output IN
    {Transaction(<<Input(h, o.pubkey)>>, <<Output(o.value - fee, 20 + fee, "bob")>>) :
        fee \in MempoolFees}
    \cup {Transaction(<<Input(h, o.pubkey)>>,
                      <<Output(U64Modulus - 1, 16, "bob"), Output(2, 17, "bob")>>)}

MempoolOffers ==
    IF Len(mempool) < MempoolCoins
    THEN UNION {FeeSpendsOf(utxos, h) : h \in DOMAIN utxos}
    ELSE {}

\* The blocks a miner composes from one mempool entry.
MempoolBlocks ==
    IF Len(blocks) <= MempoolCoins
    THEN {MakeBlock(Chain, <<tx>>,
                    SumSeq(InputValues(utxos, tx)) - SumSeq(OutputValues(tx)),
                    FALSE, "none") :
            tx \in {t \in MempoolTransactions(mempool) :
                       ~SumOverflows(OutputValues(t))}}
    ELSE {}

InitMempool ==
    /\ LET bc == rebuild_utxos(SoundChain(MempoolCoins))
       IN /\ utxos = bc.utxos
          /\ blocks = bc.blocks
          /\ target = bc.target
          /\ mempool = bc.mempool
    /\ now = 0
    /\ last = NoCall
    /\ WalletIdle
    /\ NodeIdle
    /\ FetchIdle
    /\ FramesIdle

NextMempool ==
    \/ \E transaction \in MempoolOffers : AddToMempool(transaction)
    \/ \E block \in MempoolBlocks : AddBlock(block)

SpecMempool == InitMempool /\ [][NextMempool]_vars

\* The fee of a transaction: the sum of the values of its inputs minus the
\* sum of the values of its outputs.
Fee(us, transaction) ==
    SumSeq(InputValues(us, transaction)) - SumSeq(OutputValues(transaction))

\* C17: after a successful add_to_mempool the mempool is in ascending order
\* of fee (inputs minus outputs), and add_block's removals keep it so.
C17_FeeOrder ==
    [][LET Ascending(us, mp) ==
               \A i, j \in DOMAIN mp :
                   i < j => Fee(us, mp[i].tx) <= Fee(us, mp[j].tx)
       IN /\ (last'.op = "add_to_mempool" /\ last'.res = "Ok")
             => Ascending(utxos', mempool')
          /\ (last'.op = "add_block" /\ Ascending(utxos, mempool))
             => Ascending(utxos', mempool')]_vars


(***************************************************************************)
(* Framing, checked under SpecFraming: one writer hands messages to send   *)
(* (or send_async, which has the same steps) and one reader calls receive  *)
(* (receive_async) on the other end of the stream.  ciborium is not among  *)
(* the sources; Encode and Decode follow the specification (section 3): a  *)
(* deterministic encoding of tagged variants, here the one-byte variant    *)
(* index, a map header for a variant that carries a value, and the CBOR    *)
(* form of the integer it carries.                                         *)
(***************************************************************************)
MaxFrames == 3

Msg(kind, arg) == [kind |-> kind, arg |-> arg]
DecodeError == Msg("error", 0)

Messages ==
    {Msg("DiscoverNodes", 0), Msg("FetchBlock", 0)}
    \cup {Msg("Difference", n) : n \in {-1, 300}}

VariantIndex(kind) ==
    CASE kind = "DiscoverNodes" -> 9
      [] kind = "Difference" -> 12
      [] kind = "FetchBlock" -> 13

\* An integer as CBOR writes it: in the initial byte up to 23, in one or
\* two bytes after it up to 65535, and -1 - n as a negative integer.
EncodeInt(n) ==
    IF n < 0 THEN <<32 + (-1 - n)>>
    ELSE IF n < 24 THEN <<n>>
    ELSE IF n < 256 THEN <<24, n>>
    ELSE <<25, n \div 256, n % 256>>

\* Message::encode
Encode(m) ==
    IF m.kind = "DiscoverNodes" THEN <<VariantIndex(m.kind)>>
    ELSE <<161, VariantIndex(m.kind)>> \o EncodeInt(m.arg)

\* Message::decode
Decode(data) ==
    IF \E m \in Messages : Encode(m) = data
    THEN CHOOSE m \in Messages : Encode(m) = data
    ELSE DecodeError

\* The bytes of a length written least significant byte first.
LE8(n) == [i \in 1..8 |-> IF i > 4 THEN 0 ELSE (n \div 256^(i - 1)) % 256]

\* u64::to_be_bytes and u64::from_be_bytes, for lengths below 2^32: the
\* four most significant bytes are zero.
BE8(n) == [i \in 1..8 |-> IF i < 5 THEN 0 ELSE (n \div 256^(8 - i)) % 256]

FromBE8(len_bytes) ==
    len_bytes[5] * 256^3 + len_bytes[6] * 256^2 + len_bytes[7] * 256 + len_bytes[8]

\* send: the first write_all puts the length on the stream.
SendLength(m) ==
    /\ Len(sent) < MaxFrames
    /\ send_rest = <<>>
    /\ sent' = Append(sent, m)
    /\ wire' = wire \o BE8(Len(Encode(m)))
    /\ send_rest' = Encode(m)
    /\ UNCHANGED <<chainVars, now, last, walletVars, nodeVars, fetchVars,
                   read_pc, read_len, read_buf, received>>

\* send: the second write_all puts the payload on the stream.
SendPayload ==
    /\ send_rest # <<>>
    /\ wire' = wire \o send_rest
    /\ send_rest' = <<>>
    /\ UNCHANGED <<chainVars, now, last, walletVars, nodeVars, fetchVars,
                   sent, read_pc, read_len, read_buf, received>>

\* receive: read_exact takes the next byte of the stream; with the eighth
\* byte of the prefix the length is known, and with the last byte of the
\* payload (or at once, for a length of zero) decode gives the message.
ReadByte ==
    /\ wire # <<>>
    /\ wire' = Tail(wire)
    /\ LET got == Append(read_buf, Head(wire)) IN
       IF read_pc = "len"
       THEN IF Len(got) < 8
            THEN /\ read_buf' = got
                 /\ UNCHANGED <<read_pc, read_len, received>>
            ELSE IF FromBE8(got) = 0
            THEN /\ read_buf' = <<>>
                 /\ received' = Append(received, Decode(<<>>))
                 /\ UNCHANGED <<read_pc, read_len>>
            ELSE /\ read_buf' = <<>>
                 /\ read_pc' = "data"
                 /\ read_len' = FromBE8(got)
                 /\ UNCHANGED received
       ELSE IF Len(got) < read_len
            THEN /\ read_buf' = got
                 /\ UNCHANGED <<read_pc, read_len, received>>
            ELSE /\ read_buf' = <<>>
                 /\ read_pc' = "len"
                 /\ read_len' = 0
                 /\ received' = Append(received, Decode(got))
    /\ UNCHANGED <<chainVars, now, last, walletVars, nodeVars, fetchVars,
                   sent, send_rest>>

NextFraming ==
    \/ \E m \in Messages : SendLength(m)
    \/ SendPayload
    \/ ReadByte

SpecFraming == Init /\ [][NextFraming]_vars

\* The bytes of the frames of a list of messages, one after another.
RECURSIVE Frames(_)
Frames(ms) ==
    IF ms = <<>> THEN <<>>
    ELSE BE8(Len(Encode(Head(ms)))) \o Encode(Head(ms)) \o Frames(Tail(ms))

\* The bytes the current receive call has taken off the stream.
Taken == IF read_pc = "len" THEN read_buf ELSE BE8(read_len) \o read_buf

\* C20: the messages receive has returned are the first of the messages
\* handed to send, in order; the bytes taken off the stream by the calls
\* that returned are exactly the frames of those messages (the prefix of
\* eight bytes, then the payload it announces), so that what the current
\* call holds, what is in flight and what is still to be written make up
\* the frames of the others; and once every byte is read all the messages
\* have been returned.
C20_FramingInOrder ==
    /\ Len(received) <= Len(sent)
    /\ received = SubSeq(sent, 1, Len(received))
    /\ Frames(received) \o Taken \o wire \o send_rest = Frames(sent)
    /\ (wire = <<>> /\ send_rest = <<>>) => received = sent

\* C20 witness: three messages, the first longer than the second, have
\* been sent and received.
C20_ThreeDelivered ==
    /\ Len(sent) = MaxFrames
    /\ received = sent
    /\ Len(Encode(sent[1])) > Len(Encode(sent[2]))
    /\ sent[3] # sent[2]


(***************************************************************************)
(* Initial sync, checked under SpecSync: the node downloads the blocks of  *)
(* the longest chain and appends them one by one with add_block, then      *)
(* main rebuilds the UTXO set and calls try_adjust_target once more.  The  *)
(* download (node/src/util.rs) is not among the sources; it follows the    *)
(* specification (section 4.9).                                            *)
(***************************************************************************)
\* download_blockchain: the next block of the peer's chain is appended.
Download(gap) ==
    /\ last.op # "initial_sync"
    /\ MineAtCadence(gap)

\* The tail of the sync branch of main: rebuild_utxos under the write
\* lock, then try_adjust_target under the write lock.
FinishSync ==
    /\ last.op # "initial_sync"
    /\ blocks # <<>>
    /\ LET rebuilt == rebuild_utxos(Chain)
       IN /\ SetChain(try_adjust_target(rebuilt))
          /\ last' = Call("initial_sync",
                          IF RetargetPanics(rebuilt) THEN "panic" ELSE "Ok", <<>>)
    /\ UNCHANGED <<now, walletVars, nodeVars, fetchVars, frameVars>>

NextSync ==
    \/ \E gap \in Cadences : Download(gap)
    \/ FinishSync

SpecSync == Init /\ [][NextSync]_vars

\* C29: after initial sync the target is the one add_block left after the
\* last downloaded block: the try_adjust_target call that ends the sync
\* completes and leaves the target unchanged, at every height.
C29_SyncKeepsTarget ==
    [][(last'.op = "initial_sync" /\ last.op # "initial_sync")
       => /\ last'.res = "Ok"
          /\ target' = target]_vars


(***************************************************************************)
(* The target under add_block and try_adjust_target, checked under         *)
(* SpecTarget: try_adjust_target is a public operation of Blockchain and   *)
(* may be called at any time between the appends.                          *)
(***************************************************************************)
TryAdjustTarget ==
    /\ SetChain(try_adjust_target(Chain))
    /\ last' = Call("try_adjust_target",
                    IF RetargetPanics(Chain) THEN "panic" ELSE "Ok", <<>>)
    /\ UNCHANGED <<now, walletVars, nodeVars, fetchVars, frameVars>>

\* add_block of the next block, up to the block that follows the first
\* retarget.
Extend(gap) ==
    /\ Len(blocks) <= DIFFICULTY_UPDATE_INTERVAL
    /\ MineAtCadence(gap)

NextTarget ==
    \/ \E gap \in Cadences : Extend(gap)
    \/ TryAdjustTarget

SpecTarget == Init /\ [][NextTarget]_vars

\* C30: the target of the chain is at least 1 in every state reached from
\* Blockchain::new() by add_block and try_adjust_target.
C30_TargetPositive == target >= 1

====
